---- MODULE Spec2Model ----
(***************************************************************************)
(* The recursive-descent expression parser of mini-rust.                   *)
(*                                                                         *)
(* src/src/parse.rs holds the parser object, the token-stream adapter      *)
(* (peek_token, skip_token, skip_expected_token, at_eof) and the entry     *)
(* point parse_crate.  src/src/parse/parse_expr.rs holds the rule          *)
(* procedures of the grammar (parse_expr .. parse_call_params).            *)
(*                                                                         *)
(* A parser state is a record [toks, pos, next_id]: the lexer's tokens     *)
(* (ending with the end-of-stream marker), the index of the next           *)
(* unconsumed token and the node-id counter.  Every rule procedure takes   *)
(* a parser state and returns [p |-> the parser state it leaves,           *)
(* e |-> its Option result], where None is << >> and Some(x) is <<x>>.     *)
(* The field failed of a parser state is history: it records that some     *)
(* procedure of the descent has returned None.                             *)
(***************************************************************************)
EXTENDS Integers, Sequences, FiniteSets, TLC

VARIABLES tokens, family, phase, result, parser

vars == <<tokens, family, phase, result, parser>>

(***************************************************************************)
(* Tokens (lexer::TokenKind).  A token is written as its source text.      *)
(***************************************************************************)
Eof == "Eof"

NumLits == {"1", "2", "3"}

Idents == {"f", "c"}

NumVal(t) == CASE t = "1" -> 1 [] t = "2" -> 2 [] t = "3" -> 3

AllTokens ==
    NumLits \cup Idents \cup
    {"true", "false", "(", ")", "{", "}", ",", "=", "+", "-", "*",
     "==", "!=", "<", ">", "if", "else", "return"}

(***************************************************************************)
(* Option values.                                                          *)
(***************************************************************************)
None == << >>

Some(x) == <<x>>

Unwrap(o) == o[1]

Fail(p) == [p |-> [p EXCEPT !.failed = TRUE], e |-> None]

Ok(p, x) == [p |-> p, e |-> Some(x)]

(***************************************************************************)
(* ast::Expr: a record with its kind, its children and its id.             *)
(***************************************************************************)
NumLit(n, id) == [kind |-> "NumLit", n |-> n, id |-> id]

BoolLit(b, id) == [kind |-> "BoolLit", b |-> b, id |-> id]

Ident(symbol, id) == [kind |-> "Ident", symbol |-> symbol, id |-> id]

Unary(op, operand, id) ==
    [kind |-> "Unary", op |-> op, operand |-> operand, id |-> id]

Binary(op, lhs, rhs, id) ==
    [kind |-> "Binary", op |-> op, lhs |-> lhs, rhs |-> rhs, id |-> id]

Assign(lhs, rhs, id) == [kind |-> "Assign", lhs |-> lhs, rhs |-> rhs, id |-> id]

Call(symbol, args, id) ==
    [kind |-> "Call", symbol |-> symbol, args |-> args, id |-> id]

If(cond, then, els, id) ==
    [kind |-> "If", cond |-> cond, then |-> then, els |-> els, id |-> id]

Block(body, id) == [kind |-> "Block", body |-> body, id |-> id]

Return(e, id) == [kind |-> "Return", e |-> e, id |-> id]

(***************************************************************************)
(* The token stream (the lexer behind Parser::peek_token / skip_token).    *)
(***************************************************************************)
peek_token(p) == IF p.pos <= Len(p.toks) THEN Some(p.toks[p.pos]) ELSE None

skip_token(p) == IF p.pos <= Len(p.toks) THEN [p EXCEPT !.pos = @ + 1] ELSE p

skip_expected_token(p, kind) ==
    IF peek_token(p) = Some(kind)
    THEN [p |-> skip_token(p), ok |-> TRUE]
    ELSE [p |-> p, ok |-> FALSE]

at_eof(p) == peek_token(p) = Some(Eof)

(***************************************************************************)
(* The node-id allocator: one counter, incremented and returned.           *)
(***************************************************************************)
get_next_id(p) == [p |-> [p EXCEPT !.next_id = @ + 1], id |-> p.next_id + 1]

is_expr_start(token) ==
    \/ token \in NumLits
    \/ token \in Idents
    \/ token \in {"(", "{", "+", "-", "return", "true", "false", "if"}

RECURSIVE parse_expr(_)
RECURSIVE parse_if_expr(_)
RECURSIVE parse_assign(_)
RECURSIVE parse_binary_equality(_)
RECURSIVE parse_binary_relational(_)
RECURSIVE parse_binary_add(_)
RECURSIVE parse_binary_mul(_)
RECURSIVE parse_binary_unary(_)
RECURSIVE parse_binary_primary(_)
RECURSIVE parse_call_expr(_, _)
RECURSIVE parse_call_params(_)
RECURSIVE call_params_loop(_, _)
RECURSIVE parse_block(_)
RECURSIVE block_items(_, _)

(***************************************************************************)
(* The block collaborator: "{" expr* "}", the expressions in source order. *)
(***************************************************************************)
block_items(p, body) ==
    IF peek_token(p) = Some("}")
    THEN Ok(skip_token(p), body)
    ELSE LET r == parse_expr(p)
         IN  IF r.e = None THEN Fail(r.p)
             ELSE block_items(r.p, Append(body, Unwrap(r.e)))

parse_block(p) ==
    LET s == skip_expected_token(p, "{")
    IN  IF s.ok THEN block_items(s.p, << >>) ELSE Fail(s.p)

(* expr ::= "return" expr | assign | ifExpr *)
parse_expr(p) ==
    CASE peek_token(p) = None -> Fail(p)
      [] peek_token(p) = Some("if") -> parse_if_expr(p)
      [] peek_token(p) = Some("return") ->
            LET e == parse_expr(skip_token(p))
            IN  IF e.e = None THEN Fail(e.p)
                ELSE LET a == get_next_id(e.p)
                     IN  Ok(a.p, Return(Unwrap(e.e), a.id))
      [] OTHER -> parse_assign(p)

(* if_else_branch with the nested if of an `else if` wrapped in a Block. *)
if_else_branch_wrapped(p) ==
    CASE peek_token(p) = None -> Fail(p)
      [] peek_token(p) # Some("else") -> Ok(p, None)
      [] peek_token(skip_token(p)) = None -> Fail(skip_token(p))
      [] peek_token(skip_token(p)) = Some("if") ->
            LET r == parse_if_expr(skip_token(p))
            IN  IF r.e = None THEN Fail(r.p)
                ELSE LET a == get_next_id(r.p)
                     IN  Ok(a.p, Some(Block(r.e, a.id)))
      [] OTHER ->
            LET b == parse_block(skip_token(p))
            IN  IF b.e = None THEN Fail(b.p)
                ELSE LET a == get_next_id(b.p)
                     IN  Ok(a.p, Some(Block(Unwrap(b.e), a.id)))

(* The else-branch of parse_if_expr (the value of els, an Option<Expr>);  *)
(* p is the parser state after the then-block.                            *)
if_else_branch(p) ==
    CASE peek_token(p) = None -> Fail(p)
      [] peek_token(p) # Some("else") -> Ok(p, None)
      [] peek_token(skip_token(p)) = None -> Fail(skip_token(p))
      [] peek_token(skip_token(p)) = Some("if") ->
            LET r == parse_if_expr(skip_token(p))
            IN  IF r.e = None THEN Fail(r.p) ELSE Ok(r.p, Some(Unwrap(r.e)))
      [] OTHER ->
            LET b == parse_block(skip_token(p))
            IN  IF b.e = None THEN Fail(b.p)
                ELSE LET a == get_next_id(b.p)
                     IN  Ok(a.p, Some(Block(Unwrap(b.e), a.id)))

(* if_branches with one allocator call serving both the then-Block and    *)
(* the If node.                                                           *)
if_branches_one_id(cond) ==
    LET then_block == parse_block(cond.p)
    IN  IF then_block.e = None THEN Fail(then_block.p)
        ELSE
        LET els == if_else_branch(then_block.p)
        IN  IF els.e = None THEN Fail(els.p)
            ELSE
            LET a1 == get_next_id(els.p)
            IN  Ok(a1.p,
                   If(Unwrap(cond.e),
                      Block(Unwrap(then_block.e), a1.id),
                      Unwrap(els.e),
                      a1.id))

(* if_branches with the id of the If node allocated before the id of the  *)
(* then-Block.                                                            *)
if_branches_if_first(cond) ==
    LET then_block == parse_block(cond.p)
    IN  IF then_block.e = None THEN Fail(then_block.p)
        ELSE
        LET els == if_else_branch(then_block.p)
        IN  IF els.e = None THEN Fail(els.p)
            ELSE
            LET a1 == get_next_id(els.p)
                a2 == get_next_id(a1.p)
            IN  Ok(a2.p,
                   If(Unwrap(cond.e),
                      Block(Unwrap(then_block.e), a2.id),
                      Unwrap(els.e),
                      a1.id))

(* parse_if_expr once the condition is parsed: the then-block, the        *)
(* else-branch, then the ids of the then-Block and of the If node.        *)
if_branches(cond) ==
    LET then_block == parse_block(cond.p)
    IN  IF then_block.e = None THEN Fail(then_block.p)
        ELSE
        LET els == if_else_branch(then_block.p)
        IN  IF els.e = None THEN Fail(els.p)
            ELSE
            LET a1 == get_next_id(els.p)
                a2 == get_next_id(a1.p)
            IN  Ok(a2.p,
                   If(Unwrap(cond.e),
                      Block(Unwrap(then_block.e), a1.id),
                      Unwrap(els.e),
                      a2.id))

(* ifExpr ::= "if" expr block ("else" (block | ifExpr))? *)
parse_if_expr(p) ==
    IF ~skip_expected_token(p, "if").ok THEN Fail(p)
    ELSE
    LET cond == parse_expr(skip_expected_token(p, "if").p)
    IN  IF cond.e = None THEN Fail(cond.p) ELSE if_branches(cond)

(* parse_assign once the left operand is parsed. *)
assign_rhs(lhs) ==
    CASE lhs.e = None -> Fail(lhs.p)
      [] peek_token(lhs.p) = None -> Fail(lhs.p)
      [] peek_token(lhs.p) # Some("=") -> lhs
      [] OTHER ->
        LET rhs == parse_assign(skip_token(lhs.p))
        IN  IF rhs.e = None THEN Fail(rhs.p)
            ELSE LET a == get_next_id(rhs.p)
                 IN  Ok(a.p, Assign(Unwrap(lhs.e), Unwrap(rhs.e), a.id))

(* assign ::= equality ("=" assign)? *)
parse_assign(p) == assign_rhs(parse_binary_equality(p))

(* parse_binary_equality once the left operand is parsed. *)
binary_equality_rhs(lhs) ==
    CASE lhs.e = None -> Fail(lhs.p)
      [] peek_token(lhs.p) = None -> Fail(lhs.p)
      [] peek_token(lhs.p) \notin {Some("=="), Some("!=")} -> lhs
      [] OTHER ->
        LET binop == IF peek_token(lhs.p) = Some("==") THEN "Eq" ELSE "Ne"
            rhs == parse_binary_equality(skip_token(lhs.p))
        IN  IF rhs.e = None THEN Fail(rhs.p)
            ELSE LET a == get_next_id(rhs.p)
                 IN  Ok(a.p, Binary(binop, Unwrap(lhs.e), Unwrap(rhs.e), a.id))

(* equality ::= relational (("=="|"!=") equality)? *)
parse_binary_equality(p) == binary_equality_rhs(parse_binary_relational(p))

(* parse_binary_relational once the left operand is parsed. *)
binary_relational_rhs(lhs) ==
    CASE lhs.e = None -> Fail(lhs.p)
      [] peek_token(lhs.p) = None -> Fail(lhs.p)
      [] peek_token(lhs.p) \notin {Some("<"), Some(">")} -> lhs
      [] OTHER ->
        LET binop == IF peek_token(lhs.p) = Some("<") THEN "Lt" ELSE "Gt"
            rhs == parse_binary_relational(skip_token(lhs.p))
        IN  IF rhs.e = None THEN Fail(rhs.p)
            ELSE LET a == get_next_id(rhs.p)
                 IN  Ok(a.p, Binary(binop, Unwrap(lhs.e), Unwrap(rhs.e), a.id))

(* relational ::= add (("<"|">") relational)? *)
parse_binary_relational(p) == binary_relational_rhs(parse_binary_add(p))

(* binary_add_rhs grouping a chain to the left: a op1 (b op2 c) is turned *)
(* into (a op1 b) op2 c.                                                  *)
binary_add_rhs_left(lhs) ==
    CASE lhs.e = None -> Fail(lhs.p)
      [] peek_token(lhs.p) = None -> Fail(lhs.p)
      [] peek_token(lhs.p) \notin {Some("+"), Some("-")} -> lhs
      [] OTHER ->
        LET binop == IF peek_token(lhs.p) = Some("+") THEN "Add" ELSE "Sub"
            rhs == parse_binary_add(skip_token(lhs.p))
        IN  IF rhs.e = None THEN Fail(rhs.p)
            ELSE
            LET a == get_next_id(rhs.p)
                r == Unwrap(rhs.e)
            IN  IF r.kind = "Binary" /\ r.op \in {"Add", "Sub"}
                THEN Ok(a.p, Binary(r.op,
                                    Binary(binop, Unwrap(lhs.e), r.lhs, r.id),
                                    r.rhs, a.id))
                ELSE Ok(a.p, Binary(binop, Unwrap(lhs.e), r, a.id))

(* parse_binary_add once the left operand is parsed. *)
binary_add_rhs(lhs) ==
    CASE lhs.e = None -> Fail(lhs.p)
      [] peek_token(lhs.p) = None -> Fail(lhs.p)
      [] peek_token(lhs.p) \notin {Some("+"), Some("-")} -> lhs
      [] OTHER ->
        LET binop == IF peek_token(lhs.p) = Some("+") THEN "Add" ELSE "Sub"
            rhs == parse_binary_add(skip_token(lhs.p))
        IN  IF rhs.e = None THEN Fail(rhs.p)
            ELSE LET a == get_next_id(rhs.p)
                 IN  Ok(a.p, Binary(binop, Unwrap(lhs.e), Unwrap(rhs.e), a.id))

(* add ::= mul (("+"|"-") add)? *)
parse_binary_add(p) == binary_add_rhs(parse_binary_mul(p))

(* binary_mul_rhs with the right operand parsed as an add. *)
binary_mul_rhs_as_add(lhs) ==
    CASE lhs.e = None -> Fail(lhs.p)
      [] peek_token(lhs.p) = None -> Fail(lhs.p)
      [] peek_token(lhs.p) # Some("*") -> lhs
      [] OTHER ->
        LET rhs == parse_binary_add(skip_token(lhs.p))
        IN  IF rhs.e = None THEN Fail(rhs.p)
            ELSE LET a == get_next_id(rhs.p)
                 IN  Ok(a.p, Binary("Mul", Unwrap(lhs.e), Unwrap(rhs.e), a.id))

(* parse_binary_mul once the left operand is parsed. *)
binary_mul_rhs(lhs) ==
    CASE lhs.e = None -> Fail(lhs.p)
      [] peek_token(lhs.p) = None -> Fail(lhs.p)
      [] peek_token(lhs.p) # Some("*") -> lhs
      [] OTHER ->
        LET rhs == parse_binary_mul(skip_token(lhs.p))
        IN  IF rhs.e = None THEN Fail(rhs.p)
            ELSE LET a == get_next_id(rhs.p)
                 IN  Ok(a.p, Binary("Mul", Unwrap(lhs.e), Unwrap(rhs.e), a.id))

(* mul ::= unary ("*" mul)? *)
parse_binary_mul(p) == binary_mul_rhs(parse_binary_unary(p))

(* The Unary node of parse_binary_unary: primary is the parsed operand. *)
unary_operand(unup, primary) ==
    IF primary.e = None THEN Fail(primary.p)
    ELSE LET a == get_next_id(primary.p)
         IN  Ok(a.p, Unary(unup, Unwrap(primary.e), a.id))

(* parse_binary_unary with the operand parsed by parse_binary_unary. *)
parse_binary_unary_nested(p) ==
    CASE peek_token(p) = None -> Fail(p)
      [] peek_token(p) = Some("+") ->
            unary_operand("Plus", parse_binary_unary(skip_token(p)))
      [] peek_token(p) = Some("-") ->
            unary_operand("Minus", parse_binary_unary(skip_token(p)))
      [] OTHER -> parse_binary_primary(p)

(* unary ::= ("+"|"-")? primary *)
parse_binary_unary(p) ==
    CASE peek_token(p) = None -> Fail(p)
      [] peek_token(p) = Some("+") ->
            unary_operand("Plus", parse_binary_primary(skip_token(p)))
      [] peek_token(p) = Some("-") ->
            unary_operand("Minus", parse_binary_primary(skip_token(p)))
      [] OTHER -> parse_binary_primary(p)

(* The Ident arm of parse_binary_primary: p is the state at the ident. *)
primary_ident(p) ==
    LET symbol == p.toks[p.pos]
        p1 == skip_token(p)
    IN  CASE peek_token(p1) = None -> Fail(p1)
          [] peek_token(p1) = Some("(") -> parse_call_expr(p1, symbol)
          [] OTHER -> LET a == get_next_id(p1)
                      IN  Ok(a.p, Ident(symbol, a.id))

(* The OpenParen arm of parse_binary_primary: expr is the result of       *)
(* parse_expr after the "(".                                               *)
primary_paren(expr) ==
    IF expr.e = None THEN Fail(expr.p)
    ELSE LET s == skip_expected_token(expr.p, ")")
         IN  IF ~s.ok THEN Fail(s.p) ELSE Ok(s.p, Unwrap(expr.e))

(* The OpenBrace arm of parse_binary_primary: b is the result of          *)
(* parse_block.                                                            *)
primary_block(b) ==
    IF b.e = None THEN Fail(b.p)
    ELSE LET a == get_next_id(b.p)
         IN  Ok(a.p, Block(Unwrap(b.e), a.id))

(* primary ::= num | true | false | ident ("(" callParams? ")")?
               | "(" expr ")" | block *)
parse_binary_primary(p) ==
    CASE peek_token(p) = None -> Fail(p)
      [] p.toks[p.pos] \in NumLits ->
            LET a == get_next_id(skip_token(p))
            IN  Ok(a.p, NumLit(NumVal(p.toks[p.pos]), a.id))
      [] p.toks[p.pos] = "true" ->
            LET a == get_next_id(skip_token(p))
            IN  Ok(a.p, BoolLit(TRUE, a.id))
      [] p.toks[p.pos] = "false" ->
            LET a == get_next_id(skip_token(p))
            IN  Ok(a.p, BoolLit(FALSE, a.id))
      [] p.toks[p.pos] \in Idents -> primary_ident(p)
      [] p.toks[p.pos] = "(" -> primary_paren(parse_expr(skip_token(p)))
      [] p.toks[p.pos] = "{" -> primary_block(parse_block(p))
      [] OTHER -> Fail(p)

(* call_expr_close recovering from a failed argument list with a call    *)
(* without arguments.                                                     *)
call_expr_close_recover(args, ident_sym) ==
    LET s == skip_expected_token(args.p, ")")
        a == get_next_id(s.p)
    IN  Ok(a.p, Call(ident_sym, IF args.e = None THEN << >> ELSE Unwrap(args.e),
                     a.id))

(* callExpr ::= ident "(" callParams? ")"; the ident is already consumed. *)
(* The result of skip_expected_token is not looked at.                     *)
call_expr_close(args, ident_sym) ==
    IF args.e = None THEN Fail(args.p)
    ELSE LET s == skip_expected_token(args.p, ")")
             a == get_next_id(s.p)
         IN  Ok(a.p, Call(ident_sym, Unwrap(args.e), a.id))

parse_call_expr(p, ident_sym) ==
    CASE peek_token(skip_token(p)) = None -> Fail(skip_token(p))
      [] peek_token(skip_token(p)) = Some(")") ->
            call_expr_close(Ok(skip_token(p), << >>), ident_sym)
      [] OTHER -> call_expr_close(parse_call_params(skip_token(p)), ident_sym)

(* The while loop of parse_call_params. *)
call_params_loop(p, args) ==
    CASE peek_token(p) = None -> Fail(p)
      [] peek_token(p) # Some(",") -> Ok(p, args)
      [] peek_token(skip_token(p)) = None -> Fail(skip_token(p))
      [] is_expr_start(Unwrap(peek_token(skip_token(p)))) ->
            LET r == parse_expr(skip_token(p))
            IN  IF r.e = None THEN Fail(r.p)
                ELSE call_params_loop(r.p, Append(args, Unwrap(r.e)))
      [] OTHER -> call_params_loop(skip_token(p), args)

(* callParams ::= callParam ("," callParam)* ","? *)
parse_call_params(p) ==
    LET r == parse_expr(p)
    IN  IF r.e = None THEN Fail(r.p)
        ELSE call_params_loop(r.p, <<Unwrap(r.e)>>)

(***************************************************************************)
(* The rule procedures that parse.rs itself still defines (numbers, signs, *)
(* "+", "-", "*" and parentheses).  Their Expr has no id: 0 stands in its  *)
(* place and next_id is left alone.  They are named after the file.        *)
(***************************************************************************)
RECURSIVE parse_expr_rs(_)
RECURSIVE parse_binary_add_rs(_)
RECURSIVE parse_binary_mul_rs(_)

primary_paren_rs(expr) ==
    IF expr.e = None THEN Fail(expr.p)
    ELSE LET s == skip_expected_token(expr.p, ")")
         IN  IF ~s.ok THEN Fail(s.p) ELSE Ok(s.p, Unwrap(expr.e))

(* primary ::= num | "(" expr ")" *)
parse_binary_primary_rs(p) ==
    CASE peek_token(p) = None -> Fail(p)
      [] p.toks[p.pos] \in NumLits ->
            Ok(skip_token(p), NumLit(NumVal(p.toks[p.pos]), 0))
      [] p.toks[p.pos] = "(" -> primary_paren_rs(parse_expr_rs(skip_token(p)))
      [] OTHER -> Fail(skip_token(p))

(* unary ::= ("+"|"-") primary *)
parse_binary_unary_rs(p) ==
    CASE peek_token(p) = None -> Fail(p)
      [] peek_token(p) \notin {Some("+"), Some("-")} -> parse_binary_primary_rs(p)
      [] OTHER ->
        LET unup == IF peek_token(p) = Some("+") THEN "Plus" ELSE "Minus"
            primary == parse_binary_primary_rs(skip_token(p))
        IN  IF primary.e = None THEN Fail(primary.p)
            ELSE Ok(primary.p, Unary(unup, Unwrap(primary.e), 0))

(* mul ::= unary "*" mul *)
parse_binary_mul_rs(p) ==
    LET lhs == parse_binary_unary_rs(p)
    IN  CASE lhs.e = None -> Fail(lhs.p)
          [] peek_token(lhs.p) = None -> Fail(lhs.p)
          [] peek_token(lhs.p) # Some("*") -> lhs
          [] OTHER ->
            LET rhs == parse_binary_mul_rs(skip_token(lhs.p))
            IN  IF rhs.e = None THEN Fail(rhs.p)
                ELSE Ok(rhs.p, Binary("Mul", Unwrap(lhs.e), Unwrap(rhs.e), 0))

(* add ::= mul ("+"|"-") add *)
parse_binary_add_rs(p) ==
    LET lhs == parse_binary_mul_rs(p)
    IN  CASE lhs.e = None -> Fail(lhs.p)
          [] peek_token(lhs.p) = None -> Fail(lhs.p)
          [] peek_token(lhs.p) \notin {Some("+"), Some("-")} -> lhs
          [] OTHER ->
            LET binop == IF peek_token(lhs.p) = Some("+") THEN "Add" ELSE "Sub"
                rhs == parse_binary_add_rs(skip_token(lhs.p))
            IN  IF rhs.e = None THEN Fail(rhs.p)
                ELSE Ok(rhs.p, Binary(binop, Unwrap(lhs.e), Unwrap(rhs.e), 0))

(* binary ::= add *)
parse_binary_rs(p) == parse_binary_add_rs(p)

parse_expr_rs(p) ==
    CASE peek_token(p) = None -> Fail(p)
      [] p.toks[p.pos] \in NumLits \cup {"(", "+", "-"} -> parse_binary_rs(p)
      [] OTHER -> Fail(p)

(* Parser::new followed by Parser::parse_crate. *)
ParserNew(toks) == [toks |-> toks, pos |-> 1, next_id |-> 0, failed |-> FALSE]

(* parse_crate without the end-of-stream check. *)
parse_crate_no_eof(p) == parse_expr(p)

parse_crate(p) ==
    LET expr == parse_expr(p)
    IN  IF ~at_eof(expr.p) THEN Fail(expr.p) ELSE expr

(***************************************************************************)
(* The state machine.  The lexer delivers the source one token at a time   *)
(* (Lex); parse_crate then runs on the tokens followed by the end marker   *)
(* (ParseCrate).  A source that the parser already rejects at a token      *)
(* before its end is rejected at that same token whatever follows, so Lex  *)
(* extends only the sources that are still open, except in a family that   *)
(* asks for every continuation (all).                                      *)
(*                                                                         *)
(* The sources explored are grouped in families: a family is the set of    *)
(* sources that start with its seed and continue with at most len tokens   *)
(* of its alphabet, nested at most MaxNest deep in "(" and "{".            *)
(***************************************************************************)
Source(toks) == ParserNew(toks \o <<Eof>>)

Open(toks) == at_eof(parse_crate(Source(toks)).p)

Count(toks, S) == Cardinality({i \in 1..Len(toks) : toks[i] \in S})

Nest(toks) == Count(toks, {"(", "{"}) - Count(toks, {")", "}"})

MaxNest == 3

MaxLenAll == 4

MaxLenOps == 5

MaxLenParen == 7

MaxLenCall == 8

MaxLenIf == 7

MaxLenElse == 5

MaxLenTrail == 2

MaxLenSign == 4

BinOpTokens == {"+", "-", "*", "<", ">", "==", "!=", "="}

Families ==
    [All   |-> [seed |-> << >>, alphabet |-> AllTokens, len |-> MaxLenAll,
                all |-> FALSE],
     Ops   |-> [seed |-> << >>, alphabet |-> NumLits \cup BinOpTokens,
                len |-> MaxLenOps, all |-> FALSE],
     Paren |-> [seed |-> << >>,
                alphabet |-> {"1", "2", "3", "+", "*", "(", ")"},
                len |-> MaxLenParen, all |-> FALSE],
     Call  |-> [seed |-> << >>, alphabet |-> {"f", "1", "2", "(", ")", ","},
                len |-> MaxLenCall, all |-> FALSE],
     If    |-> [seed |-> << >>,
                alphabet |-> {"if", "else", "{", "}", "1", "true"},
                len |-> MaxLenIf, all |-> FALSE],
     Else  |-> [seed |-> <<"if", "true", "{", "1", "}">>,
                alphabet |-> {"if", "else", "{", "}", "1", "2", "true"},
                len |-> MaxLenElse, all |-> FALSE],
     Trail |-> [seed |-> <<"if", "c", "{", "1", "}">>, alphabet |-> AllTokens,
                len |-> MaxLenTrail, all |-> TRUE],
     Sign  |-> [seed |-> << >>, alphabet |-> {"+", "-", "*", "1", "2"},
                len |-> MaxLenSign, all |-> TRUE]]

InitFamily(f) ==
    /\ family = f
    /\ tokens = Families[f].seed
    /\ phase = "lexing"
    /\ result = None
    /\ parser = Source(Families[f].seed)

Init == \E f \in DOMAIN Families : InitFamily(f)

Lex(t) ==
    /\ phase = "lexing"
    /\ Len(tokens) < Len(Families[family].seed) + Families[family].len
    /\ Open(tokens) \/ Families[family].all
    /\ Nest(Append(tokens, t)) <= MaxNest
    /\ tokens' = Append(tokens, t)
    /\ parser' = Source(tokens')
    /\ UNCHANGED <<family, phase, result>>

ParseCrate ==
    /\ phase = "lexing"
    /\ LET r == parse_crate(parser)
       IN  /\ result' = r.e
           /\ parser' = r.p
    /\ phase' = "parsed"
    /\ UNCHANGED <<tokens, family>>

Next ==
    \/ \E t \in Families[family].alphabet : Lex(t)
    \/ ParseCrate

Spec == Init /\ [][Next]_vars

SpecOps == (InitFamily("Ops") \/ InitFamily("Sign")) /\ [][Next]_vars

SpecArith ==
    (InitFamily("Ops") \/ InitFamily("Paren") \/ InitFamily("Sign"))
        /\ [][Next]_vars

SpecUnary ==
    (InitFamily("All") \/ InitFamily("Ops") \/ InitFamily("Sign"))
        /\ [][Next]_vars

SpecCall == InitFamily("Call") /\ [][Next]_vars

SpecIf == (InitFamily("If") \/ InitFamily("Else")) /\ [][Next]_vars

(***************************************************************************)
(* Reading a tree: its children in source order, its nodes, its ids, and   *)
(* the tree with every id erased (Shape), which is what the expected trees *)
(* of the properties below are compared with.                              *)
(***************************************************************************)
Children(e) ==
    CASE e.kind \in {"NumLit", "BoolLit", "Ident"} -> << >>
      [] e.kind = "Unary" -> <<e.operand>>
      [] e.kind \in {"Binary", "Assign"} -> <<e.lhs, e.rhs>>
      [] e.kind = "Call" -> e.args
      [] e.kind = "If" -> <<e.cond, e.then>> \o e.els
      [] e.kind = "Block" -> e.body
      [] e.kind = "Return" -> <<e.e>>

RECURSIVE Subtrees(_)
Subtrees(e) ==
    {e} \cup UNION {Subtrees(Children(e)[i]) : i \in DOMAIN Children(e)}

RECURSIVE NodeCount(_)
RECURSIVE NodeCountAll(_)
NodeCount(e) == 1 + NodeCountAll(Children(e))

NodeCountAll(es) ==
    IF es = << >> THEN 0 ELSE NodeCount(Head(es)) + NodeCountAll(Tail(es))

Ids(e) == {n.id : n \in Subtrees(e)}

RECURSIVE Shape(_)
Shape(e) ==
    CASE e.kind \in {"NumLit", "BoolLit", "Ident"} -> [e EXCEPT !.id = 0]
      [] e.kind = "Unary" -> Unary(e.op, Shape(e.operand), 0)
      [] e.kind = "Binary" -> Binary(e.op, Shape(e.lhs), Shape(e.rhs), 0)
      [] e.kind = "Assign" -> Assign(Shape(e.lhs), Shape(e.rhs), 0)
      [] e.kind = "Call" ->
            Call(e.symbol, [i \in DOMAIN e.args |-> Shape(e.args[i])], 0)
      [] e.kind = "If" ->
            If(Shape(e.cond), Shape(e.then),
               [i \in DOMAIN e.els |-> Shape(e.els[i])], 0)
      [] e.kind = "Block" ->
            Block([i \in DOMAIN e.body |-> Shape(e.body[i])], 0)
      [] e.kind = "Return" -> Return(Shape(e.e), 0)

Parsed == phase = "parsed"

Accepted == phase = "parsed" /\ result # None

Rejected == phase = "parsed" /\ result = None

(* The shape of the accepted tree; used only where Accepted holds. *)
Tree == Shape(Unwrap(result))

(***************************************************************************)
(* C1: parse_crate returns a tree only if, after parse_expr has returned   *)
(* a tree, the next unconsumed token is the end-of-stream marker: a        *)
(* complete expression followed by a non-end token is rejected (`1 2`,     *)
(* `1 )`, `if c {1} + 2`), and an expression followed by the end marker    *)
(* yields exactly the tree parse_expr built.                               *)
(***************************************************************************)
C1_TreeOnlyAtEof ==
    Parsed =>
        LET expr == parse_expr(Source(tokens))
        IN  /\ result # None => expr.e # None /\ at_eof(expr.p)
            /\ expr.e # None /\ ~at_eof(expr.p) => result = None
            /\ expr.e # None /\ at_eof(expr.p) => result = expr.e
            /\ tokens \in {<<"1", "2">>, <<"1", ")">>,
                           <<"if", "c", "{", "1", "}", "+", "2">>}
                    => expr.e # None /\ result = None
            /\ tokens = <<"if", "c", "{", "1", "}">>
                    => result = expr.e /\ result # None

C1_Witness ==
    /\ Rejected
    /\ tokens = <<"if", "c", "{", "1", "}", "+", "2">>
    /\ parse_expr(Source(tokens)).e # None
    /\ parser.toks[parser.pos] = "+"

(***************************************************************************)
(* C2: a call whose argument list is not closed by ")" makes the whole     *)
(* parse fail: `f(1` is rejected, and no source with more "(" than ")" is  *)
(* accepted.                                                               *)
(***************************************************************************)
C2_UnclosedCallRejected ==
    Parsed =>
        /\ tokens = <<"f", "(", "1">> => result = None
        /\ Count(tokens, {"("}) > Count(tokens, {")"}) => result = None

(***************************************************************************)
(* Operator chains.  A source of the form  a op1 b op2 c, each operand an  *)
(* atom or a signed atom, is read off the tokens without the parser.       *)
(***************************************************************************)
Atoms == NumLits \cup Idents \cup {"true", "false"}

Signs == {"+", "-"}

AtomTree(t) ==
    CASE t \in NumLits -> NumLit(NumVal(t), 0)
      [] t \in Idents -> Ident(t, 0)
      [] OTHER -> BoolLit(t = "true", 0)

IsOperandAt(toks, i) ==
    /\ i <= Len(toks)
    /\ \/ toks[i] \in Atoms
       \/ toks[i] \in Signs /\ i + 1 <= Len(toks) /\ toks[i + 1] \in Atoms

OperandLen(toks, i) == IF toks[i] \in Signs THEN 2 ELSE 1

OperandTree(toks, i) ==
    IF toks[i] \in Signs
    THEN Unary(IF toks[i] = "+" THEN "Plus" ELSE "Minus", AtomTree(toks[i + 1]), 0)
    ELSE AtomTree(toks[i])

(* Binding strength of a binary operator token: greater binds tighter. *)
Level(op) ==
    CASE op = "*" -> 5
      [] op \in {"+", "-"} -> 4
      [] op \in {"<", ">"} -> 3
      [] op \in {"==", "!="} -> 2
      [] op = "=" -> 1

Node(op, l, r) ==
    CASE op = "=" -> Assign(l, r, 0)
      [] op = "+" -> Binary("Add", l, r, 0)
      [] op = "-" -> Binary("Sub", l, r, 0)
      [] op = "*" -> Binary("Mul", l, r, 0)
      [] op = "<" -> Binary("Lt", l, r, 0)
      [] op = ">" -> Binary("Gt", l, r, 0)
      [] op = "==" -> Binary("Eq", l, r, 0)
      [] op = "!=" -> Binary("Ne", l, r, 0)

(* The positions of op1, b, op2 and c when toks is a op1 b op2 c. *)
PosOp1(toks) == 1 + OperandLen(toks, 1)

PosB(toks) == PosOp1(toks) + 1

PosOp2(toks) == PosB(toks) + OperandLen(toks, PosB(toks))

PosC(toks) == PosOp2(toks) + 1

IsChain(toks) ==
    /\ IsOperandAt(toks, 1)
    /\ PosOp1(toks) <= Len(toks)
    /\ toks[PosOp1(toks)] \in BinOpTokens
    /\ IsOperandAt(toks, PosB(toks))
    /\ PosOp2(toks) <= Len(toks)
    /\ toks[PosOp2(toks)] \in BinOpTokens
    /\ IsOperandAt(toks, PosC(toks))
    /\ PosC(toks) + OperandLen(toks, PosC(toks)) = Len(toks) + 1

Op1(toks) == toks[PosOp1(toks)]

Op2(toks) == toks[PosOp2(toks)]

RightNested(toks) ==
    Node(Op1(toks), OperandTree(toks, 1),
         Node(Op2(toks), OperandTree(toks, PosB(toks)),
              OperandTree(toks, PosC(toks))))

LeftNested(toks) ==
    Node(Op2(toks),
         Node(Op1(toks), OperandTree(toks, 1), OperandTree(toks, PosB(toks))),
         OperandTree(toks, PosC(toks)))

(***************************************************************************)
(* C3: chains of operators of one precedence level associate to the right  *)
(* at every level: a op1 b op2 c with op1 and op2 of the same level parses *)
(* to Node(op1, a, Node(op2, b, c)); `1-2-3` yields                        *)
(* Binary(Sub, 1, Binary(Sub, 2, 3)).                                      *)
(***************************************************************************)
C3_RightAssociative ==
    /\ Parsed /\ IsChain(tokens) /\ Level(Op1(tokens)) = Level(Op2(tokens))
            => result # None /\ Tree = RightNested(tokens)
    /\ Parsed /\ tokens = <<"1", "-", "2", "-", "3">>
            => result # None /\
               Tree = Binary("Sub", NumLit(1, 0),
                             Binary("Sub", NumLit(2, 0), NumLit(3, 0), 0), 0)
    /\ Parsed /\ IsChain(tokens) /\ Level(Op1(tokens)) = Level(Op2(tokens))
               /\ {Op1(tokens), Op2(tokens)} \subseteq {"+", "-", "*"}
            => parse_expr_rs(Source(tokens)).e = Some(RightNested(tokens))

C3_Witness ==
    /\ Accepted
    /\ tokens = <<"1", "-", "2", "-", "3">>
    /\ Unwrap(result).rhs.kind = "Binary"
    /\ Unwrap(result).lhs.kind = "NumLit"

(* Sources of the form ( a op1 b ) op2 c and a op1 ( b op2 c ). *)
IsGroupedLeft(toks) ==
    /\ Len(toks) = 7
    /\ toks[1] = "(" /\ toks[5] = ")"
    /\ {toks[2], toks[4], toks[7]} \subseteq Atoms
    /\ {toks[3], toks[6]} \subseteq BinOpTokens

IsGroupedRight(toks) ==
    /\ Len(toks) = 7
    /\ toks[3] = "(" /\ toks[7] = ")"
    /\ {toks[1], toks[4], toks[6]} \subseteq Atoms
    /\ {toks[2], toks[5]} \subseteq BinOpTokens

(***************************************************************************)
(* C4: `*` binds tighter than `+` `-`, tighter than `<` `>`, tighter than  *)
(* `==` `!=`, tighter than `=`, whichever side the tighter operator is on; *)
(* a parenthesised sub-expression is a primary: it overrides that order    *)
(* and adds no node of its own.                                            *)
(***************************************************************************)
C4_Precedence ==
    /\ Parsed /\ IsChain(tokens) /\ Level(Op1(tokens)) > Level(Op2(tokens))
            => result # None /\ Tree = LeftNested(tokens)
    /\ Parsed /\ IsChain(tokens) /\ Level(Op1(tokens)) < Level(Op2(tokens))
            => result # None /\ Tree = RightNested(tokens)
    /\ Parsed /\ IsGroupedLeft(tokens)
            => result # None /\
               Tree = Node(tokens[6],
                           Node(tokens[3], AtomTree(tokens[2]), AtomTree(tokens[4])),
                           AtomTree(tokens[7]))
    /\ Parsed /\ IsGroupedRight(tokens)
            => result # None /\
               Tree = Node(tokens[2], AtomTree(tokens[1]),
                           Node(tokens[5], AtomTree(tokens[4]), AtomTree(tokens[6])))
    /\ Accepted /\ family = "Paren"
            => NodeCount(Unwrap(result)) = Len(tokens) - Count(tokens, {"(", ")"})
    /\ Parsed /\ tokens = <<"1", "+", "2", "*", "3">>
            => result # None /\
               Tree = Binary("Add", NumLit(1, 0),
                             Binary("Mul", NumLit(2, 0), NumLit(3, 0), 0), 0)
    /\ Parsed /\ tokens = <<"1", "*", "2", "+", "3">>
            => result # None /\
               Tree = Binary("Add", Binary("Mul", NumLit(1, 0), NumLit(2, 0), 0),
                             NumLit(3, 0), 0)
    /\ Parsed /\ tokens = <<"(", "1", "+", "2", ")", "*", "3">>
            => result # None /\
               Tree = Binary("Mul", Binary("Add", NumLit(1, 0), NumLit(2, 0), 0),
                             NumLit(3, 0), 0)

C4_Witness ==
    /\ Accepted
    /\ tokens = <<"(", "1", "+", "2", ")", "*", "3">>
    /\ Unwrap(result).op = "Mul"
    /\ Unwrap(result).lhs.op = "Add"
    /\ NodeCount(Unwrap(result)) = 5

(* A source with as many ")" as "(". *)
Closed(toks) == Count(toks, {"("}) = Count(toks, {")"})

(***************************************************************************)
(* C5: a call's argument list is accepted exactly when it matches          *)
(* expr ("," expr)* ","? : every comma is followed by an expression or by  *)
(* the closing ")", so a closed list with a leading comma or with two      *)
(* consecutive commas is rejected; `f(1, 2,)` yields Call(f, [1, 2]).      *)
(***************************************************************************)
C5_CallArgsGrammar ==
    Parsed /\ Closed(tokens) =>
        /\ (\E i \in 1..(Len(tokens) - 1) :
                tokens[i] = "," /\ tokens[i + 1] = ",") => result = None
        /\ (\E i \in 1..(Len(tokens) - 1) :
                tokens[i] = "(" /\ tokens[i + 1] = ",") => result = None
        /\ tokens = <<"f", "(", "1", ",", "2", ",", ")">>
                => result # None /\
                   Tree = Call("f", <<NumLit(1, 0), NumLit(2, 0)>>, 0)

(* The If nodes of a tree, and the `else` tokens followed by token t. *)
IfNodes(e) == {n \in Subtrees(e) : n.kind = "If"}

ElseBefore(toks, t) ==
    Cardinality({i \in 1..(Len(toks) - 1) : toks[i] = "else" /\ toks[i + 1] = t})

(***************************************************************************)
(* C6: in every If node the then-branch is a Block; the else-branch is     *)
(* absent when no `else` follows the then-block, a Block when `else` is    *)
(* followed by a bare block, and the nested If itself when `else` is       *)
(* followed by `if`.  Every `if` token of an accepted source heads one If  *)
(* node and every `else` token belongs to one of them, so the three kinds  *)
(* of else-branch are counted against the tokens.                          *)
(***************************************************************************)
C6_IfBranches ==
    /\ Accepted =>
        LET ifs == IfNodes(Unwrap(result))
        IN  /\ \A n \in ifs : n.then.kind = "Block"
            /\ \A n \in ifs : n.els # None => Unwrap(n.els).kind \in {"Block", "If"}
            /\ Cardinality(ifs) = Count(tokens, {"if"})
            /\ Cardinality({n \in ifs : n.els = None})
                    = Count(tokens, {"if"}) - Count(tokens, {"else"})
            /\ Cardinality({n \in ifs : n.els # None /\ Unwrap(n.els).kind = "If"})
                    = ElseBefore(tokens, "if")
            /\ Cardinality({n \in ifs : n.els # None /\ Unwrap(n.els).kind = "Block"})
                    = ElseBefore(tokens, "{")
    /\ Parsed /\ tokens = <<"if", "true", "{", "1", "}", "else", "{", "2", "}">>
            => result # None /\
               Tree = If(BoolLit(TRUE, 0), Block(<<NumLit(1, 0)>>, 0),
                         Some(Block(<<NumLit(2, 0)>>, 0)), 0)
    /\ Parsed /\ tokens = <<"if", "true", "{", "1", "}", "else", "if", "1", "{", "}">>
            => result # None /\
               Tree = If(BoolLit(TRUE, 0), Block(<<NumLit(1, 0)>>, 0),
                         Some(If(NumLit(1, 0), Block(<< >>, 0), None, 0)), 0)

C6_Witness ==
    /\ Accepted
    /\ tokens = <<"if", "true", "{", "1", "}", "else", "{", "2", "}">>
    /\ Unwrap(result).kind = "If"
    /\ Unwrap(Unwrap(result).els).kind = "Block"

(***************************************************************************)
(* C7: in a successful parse every node of the tree got its id from one    *)
(* call of the allocator of its own: the ids are pairwise distinct and     *)
(* non-negative, and the tree holds as many nodes as ids were allocated.   *)
(***************************************************************************)
C7_IdsDistinct ==
    Accepted =>
        LET e == Unwrap(result)
        IN  /\ Cardinality(Ids(e)) = NodeCount(e)
            /\ \A i \in Ids(e) : i \in Nat
            /\ NodeCount(e) = parser.next_id
            /\ Ids(e) = 1..parser.next_id

C7_Witness ==
    /\ Accepted
    /\ tokens = <<"if", "true", "{", "1", "}", "else", "{", "2", "}">>
    /\ NodeCount(Unwrap(result)) = 6
    /\ Ids(Unwrap(result)) = 1..6

(* parse_binary_unary started at token i of the source, against          *)
(* parse_binary_primary started at the same token or after the sign.     *)
At(i) == [Source(tokens) EXCEPT !.pos = i]

UnaryAt(i) ==
    LET u == parse_binary_unary(At(i))
        q == parse_binary_primary(skip_token(At(i)))
    IN  /\ u.e = None <=> q.e = None
        /\ u.e # None =>
              /\ Unwrap(u.e) =
                    Unary(IF tokens[i] = "+" THEN "Plus" ELSE "Minus",
                          Unwrap(q.e), q.p.next_id + 1)
              /\ u.p.pos = q.p.pos
              /\ u.p.next_id = NodeCount(Unwrap(q.e)) + 1

NoUnaryAt(i) ==
    LET u == parse_binary_unary(At(i))
        q == parse_binary_primary(At(i))
    IN  /\ u = q
        /\ u.e # None =>
              /\ u.p.next_id = NodeCount(Unwrap(q.e))
              /\ Unwrap(u.e).kind = "Unary" => tokens[i] = "("

UnaryAtRs(i) ==
    LET u == parse_binary_unary_rs(At(i))
        q == parse_binary_primary_rs(skip_token(At(i)))
    IN  /\ u.e = None <=> q.e = None
        /\ u.e # None =>
              /\ Unwrap(u.e) =
                    Unary(IF tokens[i] = "+" THEN "Plus" ELSE "Minus",
                          Unwrap(q.e), 0)
              /\ u.p.pos = q.p.pos

(***************************************************************************)
(* C8: parse_binary_unary builds a Unary node only when the next token is  *)
(* `+` or `-`, and its operand is the single primary that follows: a sign  *)
(* binds tighter than every binary operator and a second sign is           *)
(* rejected; without a sign the result of primary is returned unchanged    *)
(* and no further id is allocated.  Checked at every token of the source.  *)
(***************************************************************************)
C8_UnaryPrefix ==
    Parsed =>
        /\ \A i \in 1..Len(tokens) :
              IF tokens[i] \in Signs
              THEN UnaryAt(i) /\ UnaryAtRs(i)
              ELSE NoUnaryAt(i) /\
                   parse_binary_unary_rs(At(i)) = parse_binary_primary_rs(At(i))
        /\ Len(tokens) >= 2 /\ {tokens[1], tokens[2]} \subseteq Signs
                => result = None /\ parse_expr_rs(Source(tokens)).e = None
        /\ tokens = <<"-", "1", "+", "2">>
                => /\ result # None
                   /\ Tree = Binary("Add", Unary("Minus", NumLit(1, 0), 0),
                                     NumLit(2, 0), 0)
                   /\ parse_expr_rs(Source(tokens)).e = Some(Tree)
        /\ tokens = <<"-", "1", "*", "2">>
                => /\ result # None
                   /\ Tree = Binary("Mul", Unary("Minus", NumLit(1, 0), 0),
                                     NumLit(2, 0), 0)
                   /\ parse_expr_rs(Source(tokens)).e = Some(Tree)

C8_Witness ==
    /\ Rejected
    /\ tokens = <<"-", "-", "1">>
    /\ parser.toks[parser.pos] = "-"
    /\ parser.pos = 2

(***************************************************************************)
(* C9: failure is all-or-nothing: once any rule procedure of the descent   *)
(* has returned None, parse_crate returns None; `(1+2` yields None.        *)
(***************************************************************************)
C9_FailurePropagates ==
    Parsed =>
        /\ parser.failed => result = None
        /\ tokens = <<"(", "1", "+", "2">> => parser.failed /\ result = None

C9_Witness ==
    /\ Rejected
    /\ tokens = <<"(", "1", "+", "2">>
    /\ parser.failed
    /\ at_eof(parser)

(* Every node's id is greater than every id below it. *)
ChildrenFirst(e) ==
    \A n \in Subtrees(e) :
        \A i \in DOMAIN Children(n) :
            \A j \in Ids(Children(n)[i]) : j < n.id

(***************************************************************************)
(* C10: ids are allocated children before parent: in an accepted tree the  *)
(* id of every node is greater than every id in its subtrees, so the root  *)
(* carries the greatest id.                                                *)
(***************************************************************************)
C10_ChildrenBeforeParent ==
    Accepted =>
        /\ ChildrenFirst(Unwrap(result))
        /\ \A j \in Ids(Unwrap(result)) : j <= Unwrap(result).id

C10_Witness ==
    /\ Accepted
    /\ tokens = <<"if", "true", "{", "1", "}", "else", "{", "2", "}">>
    /\ Unwrap(result).id = 6
    /\ Unwrap(result).then.id = 5
    /\ Unwrap(result).els[1].id = 4

====
